---- MODULE Spec2Model ----
(***************************************************************************)
(* Vote integrity and election lifecycle of the pollr backend: the Django  *)
(* models Election / OrganizationMember / Vote, the REST handlers of       *)
(* voting/views.py, elections/views.py and organizations/views.py, the     *)
(* GraphQL castVote mutation and the periodic status sweep.                *)
(***************************************************************************)
EXTENDS Integers, Sequences, FiniteSets, Bags, TLC

\* ---------------------------------------------------------------- bounds
MaxTime == 2
MaxMembers == 2
MaxBallot == 2
MaxReqs == 2

\* ------------------------------------------------------------- universe
Null == "null"
NoMember == 0
Owner == "owner"
Users == {"owner", "alice", "root"}
ElectionIds == {"E1", "E2"}
PositionIds == {"P1", "P2"}
CandidateIds == {"c1", "c2", "c3"}
Applicants == {"alice"}
Voters == {Owner} \cup Applicants
Times == 0..MaxTime
MemberIds == 1..MaxMembers
ReqIds == 1..MaxReqs
Items == {<<"P1", "c1">>, <<"P1", "c2">>, <<"P2", "c3">>, <<"P2", "c1">>}
BallotItems == {<<"P1", "c1">>, <<"P2", "c3">>, <<"P2", "c1">>}
Ballots == UNION {[1..n -> BallotItems] : n \in 1..MaxBallot}

VARIABLES now, elections, positions, candidates, members, memberSeq, votes,
          resp, reqs

vars == <<now, elections, positions, candidates, members, memberSeq, votes,
          resp, reqs>>

\* ------------------------------------------------------------ users
is_super_admin(u) == u = "root"

\* ------------------------------------------------------------ organization
MemberRows == DOMAIN members

is_member(u) ==
    \E id \in MemberRows :
        /\ members[id].user = u
        /\ members[id].membership_status = "approved"

is_admin(u) ==
    \/ u = Owner
    \/ \E id \in MemberRows :
          /\ members[id].user = u
          /\ members[id].role = "admin"
          /\ members[id].membership_status = "approved"

can_manage(u) == is_super_admin(u) \/ u = Owner \/ is_admin(u)

\* the lookup without the membership_status filter
ApprovedMembership_AnyStatus(u) ==
    {id \in MemberRows : members[id].user = u}

\* OrganizationMember.objects.get(user, organization, membership_status='approved')
ApprovedMembership(u) ==
    {id \in MemberRows : members[id].user = u
                         /\ members[id].membership_status = "approved"}

\* ------------------------------------------------------------ election
\* the derivation without the early return for completed
update_status_NotSticky(el, t) ==
    IF t < el.start_at THEN [el EXCEPT !.status = "scheduled"]
    ELSE IF el.start_at <= t /\ t < el.end_at THEN [el EXCEPT !.status = "ongoing"]
    ELSE [el EXCEPT !.status = "completed"]

update_status(el, t) ==
    IF el.status = "completed" THEN el
    ELSE IF t < el.start_at THEN [el EXCEPT !.status = "scheduled"]
    ELSE IF el.start_at <= t /\ t < el.end_at THEN [el EXCEPT !.status = "ongoing"]
    ELSE IF t >= el.end_at THEN [el EXCEPT !.status = "completed"]
    ELSE el

\* the check on the stored status, without update_status()
is_active_Stored(el, t) == el.status = "ongoing"

is_active(el, t) == update_status(el, t).status = "ongoing"

can_vote(el, t) == is_active(el, t)

\* a save that skips the validation of the dates
Election_clean_Skipped(el) == TRUE

Election_clean(el) == ~(el.start_at >= el.end_at)

Election_save(el, t) == update_status(el, t)

\* start() that never stores the new status
Election_start_Unsaved(el) == el

Election_start(el) ==
    IF el.status = "scheduled" THEN [el EXCEPT !.status = "ongoing"] ELSE el

Election_end(el) ==
    IF el.status \in {"scheduled", "ongoing"}
    THEN [el EXCEPT !.status = "completed"] ELSE el

\* ------------------------------------------------------------ votes
VoteRows == BagToSet(votes)

VoteUser(v) == IF v.voter # NoMember THEN members[v.voter].user ELSE v.voter_user

\* the check without the voter_user query
has_user_voted_MemberOnly(e, p, u) ==
    \E v \in VoteRows : /\ v.election = e
                        /\ v.position = p
                        /\ v.voter # NoMember
                        /\ members[v.voter].user = u

has_user_voted_for_position(e, p, u) ==
    LET voted_as_member ==
            \E v \in VoteRows : /\ v.election = e
                                /\ v.position = p
                                /\ v.voter # NoMember
                                /\ members[v.voter].user = u
        voted_as_owner ==
            \E v \in VoteRows : /\ v.election = e
                                /\ v.position = p
                                /\ v.voter_user = u
    IN voted_as_member \/ voted_as_owner

Vote_clean(v, el, t) ==
    /\ ~(v.voter = NoMember /\ v.voter_user = Null)
    /\ positions[v.position].election = v.election
    /\ candidates[v.candidate].position = v.position
    /\ can_vote(el, t)

\* voter_user filled in for every caster
VoterColumns_Both(u) ==
    IF Owner = u
    THEN [found |-> TRUE, voter |-> NoMember, voter_user |-> u]
    ELSE IF ApprovedMembership(u) = {}
    THEN [found |-> FALSE, voter |-> NoMember, voter_user |-> Null]
    ELSE [found |-> TRUE, voter |-> CHOOSE id \in ApprovedMembership(u) : TRUE,
          voter_user |-> u]

\* the voter columns of a vote cast by u, and whether the lookup succeeded
VoterColumns(u) ==
    IF Owner = u
    THEN [found |-> TRUE, voter |-> NoMember, voter_user |-> u]
    ELSE IF ApprovedMembership(u) = {}
    THEN [found |-> FALSE, voter |-> NoMember, voter_user |-> Null]
    ELSE [found |-> TRUE, voter |-> CHOOSE id \in ApprovedMembership(u) : TRUE,
          voter_user |-> Null]

NewVote(u, e, p, c) ==
    LET who == VoterColumns(u)
    IN [election |-> e, position |-> p, candidate |-> c,
        voter |-> who.voter, voter_user |-> who.voter_user]

SeqToBag(rows) ==
    [v \in {rows[i] : i \in 1..Len(rows)} |->
        Cardinality({i \in 1..Len(rows) : rows[i] = v})]

Respond(op, result) == resp' = [op |-> op, result |-> result, n |-> 0]

RespondN(op, result, n) == resp' = [op |-> op, result |-> result, n |-> n]

\* ------------------------------------------------------------ initial state
Init ==
    /\ now = 0
    /\ elections = [e \in ElectionIds |->
          IF e = "E1"
          THEN Election_save([start_at |-> 1, end_at |-> MaxTime,
                              status |-> "scheduled",
                              result_visibility |-> "public"], 0)
          ELSE Election_end(Election_save([start_at |-> 0, end_at |-> 1,
                                           status |-> "scheduled",
                              result_visibility |-> "public"], 0))]
    /\ positions = [p \in PositionIds |->
                      [election |-> "E1"]]
    /\ candidates = [c \in CandidateIds |->
                      [position |-> IF c \in {"c1", "c2"} THEN "P1" ELSE "P2",
                       user |-> Null]]
    /\ members = <<>>
    /\ memberSeq = 0
    /\ votes = EmptyBag
    /\ resp = [op |-> "none", result |-> "none", n |-> 0]
    /\ reqs = <<>>

\* ------------------------------------------------------------ clock
Tick ==
    /\ now < MaxTime
    /\ now' = now + 1
    /\ Respond("tick", "none")
    /\ UNCHANGED <<elections, positions, candidates, members, memberSeq,
                   votes, reqs>>

\* ------------------------------------------------------------ single cast
CastValidate(u, e, p, c, t) ==
    IF positions[p].election # e THEN "invalid_position"
    ELSE IF candidates[c].position # p THEN "invalid_candidate"
    ELSE IF has_user_voted_for_position(e, p, u) THEN "duplicate"
    ELSE IF ~can_vote(elections[e], t) THEN "closed"
    ELSE IF ~is_member(u) /\ Owner # u THEN "not_eligible"
    ELSE "ok"

\* what VoteViewSet.cast answers and the rows it inserts
CastOutcome(u, e, p, c) ==
    LET verdict == CastValidate(u, e, p, c, now)
        el == update_status(elections[e], now)
        v == NewVote(u, e, p, c)
    IN IF verdict # "ok" THEN [result |-> verdict, rows |-> <<>>]
       ELSE IF ~VoterColumns(u).found \/ ~Vote_clean(v, el, now)
       THEN [result |-> "error", rows |-> <<>>]
       ELSE [result |-> "created", rows |-> <<v>>]

Cast(u, e, p, c) ==
    /\ LET out == CastOutcome(u, e, p, c)
       IN /\ Respond("cast", out.result)
          /\ votes' = votes (+) SeqToBag(out.rows)
    /\ UNCHANGED <<now, elections, positions, candidates, members,
                   memberSeq, reqs>>

\* ------------------------------------------------------------ GraphQL castVote
\* what the CastVote mutation answers and the rows it inserts
CastVoteOutcome(u, e, p, c) ==
    LET el == update_status(elections[e], now)
        v == NewVote(u, e, p, c)
        verdict ==
            IF positions[p].election # e THEN "error"
            ELSE IF candidates[c].position # p THEN "error"
            ELSE IF has_user_voted_for_position(e, p, u) THEN "duplicate"
            ELSE IF ~can_vote(elections[e], now) THEN "closed"
            ELSE IF ~VoterColumns(u).found THEN "error"
            ELSE IF ~Vote_clean(v, el, now) THEN "error"
            ELSE "created"
    IN [result |-> verdict,
        rows |-> IF verdict = "created" THEN <<v>> ELSE <<>>]

CastVoteMutate(u, e, p, c) ==
    /\ LET out == CastVoteOutcome(u, e, p, c)
       IN /\ Respond("castVote", out.result)
          /\ votes' = votes (+) SeqToBag(out.rows)
    /\ UNCHANGED <<now, elections, positions, candidates, members,
                   memberSeq, reqs>>

\* ------------------------------------------------------------ bulk cast
\* the per-item loop without the set of positions seen
RECURSIVE BulkItems_NoSeenCheck(_, _, _, _, _)
BulkItems_NoSeenCheck(u, e, items, i, seen) ==
    IF i > Len(items) THEN [verdict |-> "ok", n |-> Len(items)]
    ELSE LET p == items[i][1]
             c == items[i][2]
         IN IF positions[p].election # e
            THEN [verdict |-> "invalid_position", n |-> i - 1]
            ELSE IF candidates[c].position # p
            THEN [verdict |-> "invalid_candidate", n |-> i - 1]
            ELSE IF has_user_voted_for_position(e, p, u)
            THEN [verdict |-> "duplicate", n |-> i - 1]
            ELSE BulkItems_NoSeenCheck(u, e, items, i + 1, seen)

\* the per-item loop without the already-voted check
RECURSIVE BulkItems_NoVotedCheck(_, _, _, _, _)
BulkItems_NoVotedCheck(u, e, items, i, seen) ==
    IF i > Len(items) THEN [verdict |-> "ok", n |-> Len(items)]
    ELSE LET p == items[i][1]
             c == items[i][2]
         IN IF p \in seen THEN [verdict |-> "duplicate_position", n |-> i - 1]
            ELSE IF positions[p].election # e
            THEN [verdict |-> "invalid_position", n |-> i - 1]
            ELSE IF candidates[c].position # p
            THEN [verdict |-> "invalid_candidate", n |-> i - 1]
            ELSE BulkItems_NoVotedCheck(u, e, items, i + 1, seen \cup {p})

\* the per-item loop of BulkVoteSerializer.validate: the verdict and the
\* number of items that passed before it
RECURSIVE BulkItems(_, _, _, _, _)
BulkItems(u, e, items, i, seen) ==
    IF i > Len(items) THEN [verdict |-> "ok", n |-> Len(items)]
    ELSE LET p == items[i][1]
             c == items[i][2]
         IN IF p \in seen THEN [verdict |-> "duplicate_position", n |-> i - 1]
            ELSE IF positions[p].election # e
            THEN [verdict |-> "invalid_position", n |-> i - 1]
            ELSE IF candidates[c].position # p
            THEN [verdict |-> "invalid_candidate", n |-> i - 1]
            ELSE IF has_user_voted_for_position(e, p, u)
            THEN [verdict |-> "duplicate", n |-> i - 1]
            ELSE BulkItems(u, e, items, i + 1, seen \cup {p})

BulkValidate(u, e, items, t) ==
    IF ~can_vote(elections[e], t) THEN [verdict |-> "closed", n |-> 0]
    ELSE IF ~is_member(u) /\ Owner # u THEN [verdict |-> "not_eligible", n |-> 0]
    ELSE BulkItems(u, e, items, 1, {})

\* the commit loop without transaction.atomic()
TransactionResult_NoRollback(pending, failed) == pending

\* transaction.atomic(): the rows created in the block are kept on normal
\* exit and dropped when an exception leaves the block
TransactionResult(pending, failed) ==
    IF failed THEN <<>> ELSE pending

\* one iteration of the commit loop: the row, and whether creating it raised
BulkCreate(u, e, item, el, t) ==
    LET v == NewVote(u, e, item[1], item[2])
    IN [row |-> v, failed |-> ~VoterColumns(u).found \/ ~Vote_clean(v, el, t)]

\* the commit loop taking the items last to first
BulkRows_Reversed(u, e, items, el, t) ==
    [i \in 1..Len(items) |->
        BulkCreate(u, e, items[Len(items) + 1 - i], el, t)]

BulkRows(u, e, items, el, t) ==
    [i \in 1..Len(items) |-> BulkCreate(u, e, items[i], el, t)]

\* what VoteViewSet.bulk_cast answers and the rows it inserts
BulkCastOutcome(u, e, items) ==
    LET checked == BulkValidate(u, e, items, now)
        el == update_status(elections[e], now)
        made == BulkRows(u, e, items, el, now)
        failed == \E i \in 1..Len(items) : made[i].failed
        kept == TransactionResult([i \in 1..Len(items) |-> made[i].row], failed)
    IN IF checked.verdict # "ok"
       THEN [result |-> checked.verdict, n |-> checked.n, rows |-> <<>>]
       ELSE [result |-> IF failed THEN "error" ELSE "created",
             n |-> Len(kept), rows |-> kept]

BulkCast(u, e, items) ==
    /\ LET out == BulkCastOutcome(u, e, items)
       IN /\ RespondN("bulk_cast", out.result, out.n)
          /\ votes' = votes (+) SeqToBag(out.rows)
    /\ UNCHANGED <<now, elections, positions, candidates, members,
                   memberSeq, reqs>>

\* ------------------------------------------------------------ memberships
HasMembership(u) == \E id \in MemberRows : members[id].user = u

\* a save that skips the validation of the row
OrganizationMember_clean_Skipped(row) == TRUE

OrganizationMember_clean(row) == row.user # Owner

CreateMember(row) ==
    /\ members' = members @@ ((memberSeq + 1) :> row)
    /\ memberSeq' = memberSeq + 1

invite_member(u, target, role) ==
    /\ memberSeq < MaxMembers
    /\ LET row == [user |-> target, role |-> role, membership_status |-> "pending"]
       IN IF ~can_manage(u)
          THEN /\ Respond("invite_member", "forbidden")
               /\ UNCHANGED <<members, memberSeq>>
          ELSE IF Owner = target \/ HasMembership(target)
          THEN /\ Respond("invite_member", "invalid")
               /\ UNCHANGED <<members, memberSeq>>
          ELSE IF ~OrganizationMember_clean(row)
          THEN /\ Respond("invite_member", "error")
               /\ UNCHANGED <<members, memberSeq>>
          ELSE /\ Respond("invite_member", "created")
               /\ CreateMember(row)
    /\ UNCHANGED <<now, elections, positions, candidates, votes, reqs>>

join_request(u) ==
    /\ memberSeq < MaxMembers
    /\ LET row == [user |-> u, role |-> "voter", membership_status |-> "pending"]
       IN IF Owner = u \/ HasMembership(u)
          THEN /\ Respond("join_request", "invalid")
               /\ UNCHANGED <<members, memberSeq>>
          ELSE IF ~OrganizationMember_clean(row)
          THEN /\ Respond("join_request", "error")
               /\ UNCHANGED <<members, memberSeq>>
          ELSE /\ Respond("join_request", "created")
               /\ CreateMember(row)
    /\ UNCHANGED <<now, elections, positions, candidates, votes, reqs>>

\* OrganizationMemberViewSet.get_queryset: the rows u may look up
MemberVisible(u) == is_super_admin(u) \/ Owner = u \/ is_member(u)

CanManageMembers(u) == is_super_admin(u) \/ Owner = u \/ is_admin(u)

review(u, id, action_type) ==
    /\ id \in MemberRows
    /\ LET row == [members[id] EXCEPT !.membership_status =
                      IF action_type = "approve" THEN "approved" ELSE "rejected"]
       IN IF ~MemberVisible(u)
          THEN /\ Respond("review", "not_found")
               /\ members' = members
          ELSE IF ~CanManageMembers(u)
          THEN /\ Respond("review", "forbidden")
               /\ members' = members
          ELSE IF ~OrganizationMember_clean(row)
          THEN /\ Respond("review", "error")
               /\ members' = members
          ELSE /\ Respond("review", action_type)
               /\ members' = [members EXCEPT ![id] = row]
    /\ UNCHANGED <<now, elections, positions, candidates, memberSeq, votes, reqs>>

\* Vote.voter is on_delete=CASCADE
CascadeVotes(id) ==
    [v \in {x \in VoteRows : x.voter # id} |-> votes[v]]

leave(u, id) ==
    /\ id \in MemberRows
    /\ IF ~MemberVisible(u)
       THEN /\ Respond("leave", "not_found")
            /\ UNCHANGED <<members, votes>>
       ELSE IF members[id].user # u
       THEN /\ Respond("leave", "forbidden")
            /\ UNCHANGED <<members, votes>>
       ELSE IF Owner = u
       THEN /\ Respond("leave", "invalid")
            /\ UNCHANGED <<members, votes>>
       ELSE /\ Respond("leave", "deleted")
            /\ members' = [i \in MemberRows \ {id} |-> members[i]]
            /\ votes' = CascadeVotes(id)
    /\ UNCHANGED <<now, elections, positions, candidates, memberSeq, reqs>>

\* OrganizationMemberSerializer on an existing row: the unique_together
\* validator looks for another row of the same user
UniqueTogether(id, row) ==
    ~\E other \in MemberRows \ {id} : members[other].user = row.user

MemberFields == {"membership_status", "role", "user"}

FieldValues(field) ==
    IF field = "membership_status" THEN {"pending", "approved", "rejected"}
    ELSE IF field = "role" THEN {"admin", "voter"}
    ELSE Users

\* PATCH members/{id}/ with one writable field of OrganizationMemberSerializer
member_partial_update(u, id, field, value) ==
    /\ id \in MemberRows
    /\ LET row == [members[id] EXCEPT ![field] = value]
       IN IF ~MemberVisible(u)
          THEN /\ Respond("member_update", "not_found")
               /\ members' = members
          ELSE IF ~CanManageMembers(u)
          THEN /\ Respond("member_update", "forbidden")
               /\ members' = members
          ELSE IF ~UniqueTogether(id, row)
          THEN /\ Respond("member_update", "invalid")
               /\ members' = members
          ELSE IF ~OrganizationMember_clean(row)
          THEN /\ Respond("member_update", "error")
               /\ members' = members
          ELSE /\ Respond("member_update", "ok")
               /\ members' = [members EXCEPT ![id] = row]
    /\ UNCHANGED <<now, elections, positions, candidates, memberSeq, votes, reqs>>

\* DELETE members/{id}/
member_destroy(u, id) ==
    /\ id \in MemberRows
    /\ IF ~MemberVisible(u)
       THEN /\ Respond("member_destroy", "not_found")
            /\ UNCHANGED <<members, votes>>
       ELSE IF ~CanManageMembers(u)
       THEN /\ Respond("member_destroy", "forbidden")
            /\ UNCHANGED <<members, votes>>
       ELSE /\ Respond("member_destroy", "deleted")
            /\ members' = [i \in MemberRows \ {id} |-> members[i]]
            /\ votes' = CascadeVotes(id)
    /\ UNCHANGED <<now, elections, positions, candidates, memberSeq, reqs>>

\* POST members/ is answered by the organization detail route, which is
\* registered first and takes "members" for a slug: the method is not allowed
member_create(u) ==
    /\ Respond("member_create", "method_not_allowed")
    /\ UNCHANGED <<now, elections, positions, candidates, members, memberSeq,
                   votes, reqs>>

update_role(u, id, new_role) ==
    /\ id \in MemberRows
    /\ LET row == [members[id] EXCEPT !.role = new_role]
       IN IF ~MemberVisible(u)
          THEN /\ Respond("update_role", "not_found")
               /\ members' = members
          ELSE IF ~CanManageMembers(u)
          THEN /\ Respond("update_role", "forbidden")
               /\ members' = members
          ELSE IF members[id].membership_status # "approved"
          THEN /\ Respond("update_role", "invalid")
               /\ members' = members
          ELSE IF ~OrganizationMember_clean(row)
          THEN /\ Respond("update_role", "error")
               /\ members' = members
          ELSE /\ Respond("update_role", "ok")
               /\ members' = [members EXCEPT ![id] = row]
    /\ UNCHANGED <<now, elections, positions, candidates, memberSeq, votes, reqs>>

\* ------------------------------------------------------------ election control
\* ElectionViewSet.get_queryset: the elections u may look up
ElectionVisible(u) == is_super_admin(u) \/ Owner = u \/ is_member(u)

\* IsOrganizationOwnerOrAdmin.has_object_permission applied to an Election:
\* the object has no attribute owner
ElectionObjectPermission(u) ==
    IF is_super_admin(u) THEN "allow" ELSE "attribute_error"

start(u, e) ==
    /\ IF ~ElectionVisible(u)
       THEN /\ Respond("start", "not_found")
            /\ elections' = elections
       ELSE IF ElectionObjectPermission(u) # "allow"
       THEN /\ Respond("start", "error")
            /\ elections' = elections
       ELSE IF elections[e].status # "scheduled"
       THEN /\ Respond("start", "invalid_transition")
            /\ elections' = elections
       ELSE /\ Respond("start", "ok")
            /\ elections' = [elections EXCEPT ![e] = Election_start(@)]
    /\ UNCHANGED <<now, positions, candidates, members, memberSeq, votes, reqs>>

end(u, e) ==
    /\ IF ~ElectionVisible(u)
       THEN /\ Respond("end", "not_found")
            /\ elections' = elections
       ELSE IF ElectionObjectPermission(u) # "allow"
       THEN /\ Respond("end", "error")
            /\ elections' = elections
       ELSE IF elections[e].status = "completed"
       THEN /\ Respond("end", "invalid_transition")
            /\ elections' = elections
       ELSE /\ Respond("end", "ok")
            /\ elections' = [elections EXCEPT ![e] = Election_end(@)]
    /\ UNCHANGED <<now, positions, candidates, members, memberSeq, votes, reqs>>

\* PATCH of an election that leaves start_at and end_at alone (title,
\* description): ModelSerializer.update ends in Election.save
partial_update(u, e) ==
    /\ IF ~ElectionVisible(u)
       THEN /\ Respond("partial_update", "not_found")
            /\ elections' = elections
       ELSE IF ElectionObjectPermission(u) # "allow"
       THEN /\ Respond("partial_update", "error")
            /\ elections' = elections
       ELSE IF ~Election_clean(elections[e])
       THEN /\ Respond("partial_update", "error")
            /\ elections' = elections
       ELSE /\ Respond("partial_update", "ok")
            /\ elections' = [elections EXCEPT ![e] = Election_save(@, now)]
    /\ UNCHANGED <<now, positions, candidates, members, memberSeq, votes, reqs>>

\* ids of rows that requests may add
NewElectionIds == {"E3"}
NewPositionIds == {"P3"}
NewCandidateIds == {"c4"}

\* ElectionSerializer.validate: only the times present in the request are
\* compared; NoTime stands for a time the request leaves out
NoTime == 0 - 1

ElectionSerializer_validate(attrs) ==
    ~(attrs.start_at # NoTime /\ attrs.end_at # NoTime
         /\ attrs.start_at >= attrs.end_at)

TimeAttrs == [start_at : Times \cup {NoTime}, end_at : Times \cup {NoTime}]

ApplyAttrs(el, attrs) ==
    [el EXCEPT !.start_at = IF attrs.start_at # NoTime THEN attrs.start_at ELSE @,
               !.end_at = IF attrs.end_at # NoTime THEN attrs.end_at ELSE @]

\* PUT or PATCH of an election through ElectionSerializer with new times
ElectionViewSet_update(u, e, attrs) ==
    /\ e \in DOMAIN elections
    /\ LET row == ApplyAttrs(elections[e], attrs)
       IN IF ~ElectionVisible(u)
          THEN /\ Respond("election_update", "not_found")
               /\ elections' = elections
          ELSE IF ElectionObjectPermission(u) # "allow"
          THEN /\ Respond("election_update", "error")
               /\ elections' = elections
          ELSE IF ~ElectionSerializer_validate(attrs)
          THEN /\ Respond("election_update", "invalid_dates")
               /\ elections' = elections
          ELSE IF ~Election_clean(row)
          THEN /\ Respond("election_update", "validation_error")
               /\ elections' = elections
          ELSE /\ Respond("election_update", "ok")
               /\ elections' = [elections EXCEPT ![e] = Election_save(row, now)]
    /\ UNCHANGED <<now, positions, candidates, members, memberSeq, votes, reqs>>

\* GraphQL createElection: Election.objects.create ends in Election.save
CreateElection_mutate(u, e, start_at, end_at) ==
    /\ e \in NewElectionIds \ DOMAIN elections
    /\ LET el == [start_at |-> start_at, end_at |-> end_at,
                  status |-> "scheduled", result_visibility |-> "public"]
       IN IF ~can_manage(u)
          THEN /\ Respond("createElection", "denied")
               /\ elections' = elections
          ELSE IF ~Election_clean(el)
          THEN /\ Respond("createElection", "validation_error")
               /\ elections' = elections
          ELSE /\ Respond("createElection", "created")
               /\ elections' = elections @@ (e :> Election_save(el, now))
    /\ UNCHANGED <<now, positions, candidates, members, memberSeq, votes, reqs>>

\* ------------------------------------------------------------ positions, candidates
\* PATCH of a position through PositionSerializer, whose election field is
\* writable; the same get_queryset filter and permission class as elections
PositionViewSet_partial_update(u, p, e) ==
    /\ IF ~ElectionVisible(u)
       THEN /\ Respond("position_update", "not_found")
            /\ positions' = positions
       ELSE IF ElectionObjectPermission(u) # "allow"
       THEN /\ Respond("position_update", "error")
            /\ positions' = positions
       ELSE /\ Respond("position_update", "ok")
            /\ positions' = [positions EXCEPT ![p].election = e]
    /\ UNCHANGED <<now, elections, candidates, members, memberSeq, votes, reqs>>

\* Candidate.clean: an attached user is the owner or an approved member
Candidate_clean(row) ==
    row.user # Null => (is_member(row.user) \/ Owner = row.user)

\* PATCH of a candidate through CandidateSerializer, whose position field is
\* writable
CandidateViewSet_partial_update(u, c, p) ==
    /\ IF ~ElectionVisible(u)
       THEN /\ Respond("candidate_update", "not_found")
            /\ candidates' = candidates
       ELSE IF ElectionObjectPermission(u) # "allow"
       THEN /\ Respond("candidate_update", "error")
            /\ candidates' = candidates
       ELSE IF ~Candidate_clean([candidates[c] EXCEPT !.position = p])
       THEN /\ Respond("candidate_update", "error")
            /\ candidates' = candidates
       ELSE /\ Respond("candidate_update", "ok")
            /\ candidates' = [candidates EXCEPT ![c].position = p]
    /\ UNCHANGED <<now, elections, positions, members, memberSeq, votes, reqs>>

\* on_delete=CASCADE from Election down to Position, Candidate and Vote
KeepPositions(es) == {p \in DOMAIN positions : positions[p].election \in es}

KeepCandidates(ps) == {c \in DOMAIN candidates : candidates[c].position \in ps}

Cascade(es, ps, cs) ==
    /\ elections' = [e \in es |-> elections[e]]
    /\ positions' = [p \in ps |-> positions[p]]
    /\ candidates' = [c \in cs |-> candidates[c]]
    /\ votes' = [v \in {x \in VoteRows : /\ x.election \in es
                                         /\ x.position \in ps
                                         /\ x.candidate \in cs} |-> votes[v]]

\* POST elections/ through ElectionCreateSerializer
ElectionViewSet_create(u, e, start_at) ==
    /\ e \in NewElectionIds \ DOMAIN elections
    /\ LET el == [start_at |-> start_at, end_at |-> MaxTime,
                  status |-> "scheduled", result_visibility |-> "public"]
       IN IF ~Election_clean(el)
          THEN /\ Respond("election_create", "invalid")
               /\ elections' = elections
          ELSE IF ~can_manage(u)
          THEN /\ Respond("election_create", "denied")
               /\ elections' = elections
          ELSE /\ Respond("election_create", "created")
               /\ elections' = elections @@ (e :> Election_save(el, now))
    /\ UNCHANGED <<now, positions, candidates, members, memberSeq, votes, reqs>>

ElectionViewSet_destroy(u, e) ==
    /\ e \in DOMAIN elections
    /\ IF ~ElectionVisible(u)
       THEN /\ Respond("election_destroy", "not_found")
            /\ UNCHANGED <<elections, positions, candidates, votes>>
       ELSE IF ElectionObjectPermission(u) # "allow"
       THEN /\ Respond("election_destroy", "error")
            /\ UNCHANGED <<elections, positions, candidates, votes>>
       ELSE /\ Respond("election_destroy", "deleted")
            /\ LET es == DOMAIN elections \ {e}
                   ps == KeepPositions(es)
               IN Cascade(es, ps, KeepCandidates(ps))
    /\ UNCHANGED <<now, members, memberSeq, reqs>>

\* POST positions/ through PositionSerializer: create looks up no object, so
\* no object permission is evaluated
PositionViewSet_create(u, p, e) ==
    /\ p \in NewPositionIds \ DOMAIN positions
    /\ e \in DOMAIN elections
    /\ Respond("position_create", "created")
    /\ positions' = positions @@ (p :> [election |-> e])
    /\ UNCHANGED <<now, elections, candidates, members, memberSeq, votes, reqs>>

PositionViewSet_destroy(u, p) ==
    /\ p \in DOMAIN positions
    /\ IF ~ElectionVisible(u)
       THEN /\ Respond("position_destroy", "not_found")
            /\ UNCHANGED <<elections, positions, candidates, votes>>
       ELSE IF ElectionObjectPermission(u) # "allow"
       THEN /\ Respond("position_destroy", "error")
            /\ UNCHANGED <<elections, positions, candidates, votes>>
       ELSE /\ Respond("position_destroy", "deleted")
            /\ LET ps == DOMAIN positions \ {p}
               IN Cascade(DOMAIN elections, ps, KeepCandidates(ps))
    /\ UNCHANGED <<now, members, memberSeq, reqs>>

\* POST candidates/ through CandidateCreateSerializer; cu is the attached
\* user, Null for a candidate given by name only
CandidateViewSet_create(u, c, p, cu) ==
    /\ c \in NewCandidateIds \ DOMAIN candidates
    /\ p \in DOMAIN positions
    /\ LET row == [position |-> p, user |-> cu]
       IN IF ~Candidate_clean(row)
          THEN /\ Respond("candidate_create", "invalid")
               /\ candidates' = candidates
          ELSE /\ Respond("candidate_create", "created")
               /\ candidates' = candidates @@ (c :> row)
    /\ UNCHANGED <<now, elections, positions, members, memberSeq, votes, reqs>>

CandidateViewSet_destroy(u, c) ==
    /\ c \in DOMAIN candidates
    /\ IF ~ElectionVisible(u)
       THEN /\ Respond("candidate_destroy", "not_found")
            /\ UNCHANGED <<elections, positions, candidates, votes>>
       ELSE IF ElectionObjectPermission(u) # "allow"
       THEN /\ Respond("candidate_destroy", "error")
            /\ UNCHANGED <<elections, positions, candidates, votes>>
       ELSE /\ Respond("candidate_destroy", "deleted")
            /\ Cascade(DOMAIN elections, DOMAIN positions,
                       DOMAIN candidates \ {c})
    /\ UNCHANGED <<now, members, memberSeq, reqs>>

\* the mutating requests of user u on elections, positions and candidates
ManageOps(u) ==
    \/ \E e \in NewElectionIds, t \in Times : ElectionViewSet_create(u, e, t)
    \/ \E e \in {"E1"} : partial_update(u, e)
    \/ \E e \in NewElectionIds : ElectionViewSet_destroy(u, e)
    \/ \E e \in {"E1"} : start(u, e)
    \/ \E e \in {"E1"} : end(u, e)
    \/ \E p \in NewPositionIds, e \in DOMAIN elections :
          PositionViewSet_create(u, p, e)
    \/ \E p \in {"P2"} \cap DOMAIN positions, e \in DOMAIN elections :
          PositionViewSet_partial_update(u, p, e)
    \/ \E p \in {"P2"} \cup NewPositionIds : PositionViewSet_destroy(u, p)
    \/ \E c \in NewCandidateIds, p \in DOMAIN positions :
          CandidateViewSet_create(u, c, p, Null)
    \/ \E c \in {"c1"} \cap DOMAIN candidates, p \in DOMAIN positions :
          CandidateViewSet_partial_update(u, c, p)
    \/ \E c \in {"c1"} \cup NewCandidateIds : CandidateViewSet_destroy(u, c)

\* ------------------------------------------------------------ periodic sweep
SweepOne(el, t) ==
    IF el.status = "scheduled" /\ el.start_at <= t /\ el.end_at > t
    THEN Election_save([el EXCEPT !.status = "ongoing"], t)
    ELSE IF el.status = "ongoing" /\ el.end_at <= t
    THEN Election_save([el EXCEPT !.status = "completed"], t)
    ELSE el

update_election_statuses ==
    /\ elections' = [e \in ElectionIds |-> SweepOne(elections[e], now)]
    /\ Respond("sweep", "none")
    /\ UNCHANGED <<now, positions, candidates, members, memberSeq, votes, reqs>>

\* ------------------------------------------------------------ requests in flight
\* The same handlers with the steps of two requests interleaving: the
\* serializer's validation is one step, every Vote.objects.create another.
\* el is the Election instance the request loaded and keeps using.
Remove(r) == [x \in DOMAIN reqs \ {r} |-> reqs[x]]

CastBegin(r, u, e, p, c) ==
    /\ r \notin DOMAIN reqs
    /\ LET verdict == CastValidate(u, e, p, c, now)
       IN IF verdict # "ok"
          THEN /\ Respond("cast", verdict)
               /\ reqs' = reqs
          ELSE /\ resp' = resp
               /\ reqs' = reqs @@ (r :> [kind |-> "cast", user |-> u,
                                         election |-> e,
                                         el |-> update_status(elections[e], now),
                                         items |-> <<<<p, c>>>>,
                                         pending |-> <<>>])
    /\ UNCHANGED <<now, elections, positions, candidates, members, memberSeq,
                   votes>>

CastFinish(r) ==
    /\ r \in DOMAIN reqs
    /\ reqs[r].kind = "cast"
    /\ LET q == reqs[r]
           made == BulkCreate(q.user, q.election, q.items[1], q.el, now)
       IN IF made.failed
          THEN /\ Respond("cast", "error")
               /\ votes' = votes
          ELSE /\ Respond("cast", "created")
               /\ votes' = votes (+) SetToBag({made.row})
    /\ reqs' = Remove(r)
    /\ UNCHANGED <<now, elections, positions, candidates, members, memberSeq>>

BulkBegin(r, u, e, items) ==
    /\ r \notin DOMAIN reqs
    /\ LET checked == BulkValidate(u, e, items, now)
       IN IF checked.verdict # "ok"
          THEN /\ RespondN("bulk_cast", checked.verdict, checked.n)
               /\ reqs' = reqs
          ELSE /\ resp' = resp
               /\ reqs' = reqs @@ (r :> [kind |-> "bulk", user |-> u,
                                         election |-> e,
                                         el |-> update_status(elections[e], now),
                                         items |-> items,
                                         pending |-> <<>>])
    /\ UNCHANGED <<now, elections, positions, candidates, members, memberSeq,
                   votes>>

BulkStep(r) ==
    /\ r \in DOMAIN reqs
    /\ reqs[r].kind = "bulk"
    /\ LET q == reqs[r]
           i == Len(q.pending) + 1
           made == BulkCreate(q.user, q.election, q.items[i], q.el, now)
           rows == Append(q.pending, made.row)
       IN IF made.failed
          THEN /\ RespondN("bulk_cast", "error", Len(q.pending))
               /\ votes' = votes (+) SeqToBag(TransactionResult(q.pending, TRUE))
               /\ reqs' = Remove(r)
          ELSE IF i = Len(q.items)
          THEN /\ RespondN("bulk_cast", "created", Len(rows))
               /\ votes' = votes (+) SeqToBag(TransactionResult(rows, FALSE))
               /\ reqs' = Remove(r)
          ELSE /\ resp' = resp
               /\ votes' = votes
               /\ reqs' = [reqs EXCEPT ![r].pending = rows]
    /\ UNCHANGED <<now, elections, positions, candidates, members, memberSeq>>

\* ------------------------------------------------------------ results
\* the check without the test for a completed election
can_view_results_AnyStatus(u, el) ==
    IF el.result_visibility = "public" THEN TRUE
    ELSE is_member(u) \/ Owner = u

\* Election.can_view_results: reads the stored status
can_view_results(u, el) ==
    IF el.result_visibility = "public" THEN TRUE
    ELSE IF el.status # "completed" THEN FALSE
    ELSE is_member(u) \/ Owner = u

\* Vote.objects.filter(position=position).count()
PositionVotes(p) ==
    LET rows == {v \in VoteRows : v.position = p}
    IN BagCardinality([v \in rows |-> votes[v]])

\* vote_count / total_votes * 100, kept as a whole number
Percentage(n, total) == IF total > 0 THEN (n * 100) \div total ELSE 0

\* the grouped query: one entry per candidate that has a vote row for p
CandidateVotes(p, total) ==
    LET rows == {v \in VoteRows : v.position = p}
        count(c) == BagCardinality([v \in {x \in rows : x.candidate = c} |->
                                       votes[v]])
    IN {[candidate_id |-> c, vote_count |-> count(c),
         percentage |-> Percentage(count(c), total)] :
            c \in {v.candidate : v \in rows}}

\* the list without the candidates that have no vote
ZeroVoteCandidates_None(p, voted) == {}

\* position.candidates.exclude(id__in=voted_candidate_ids)
ZeroVoteCandidates(p, voted) ==
    {[candidate_id |-> c, vote_count |-> 0, percentage |-> 0] :
        c \in {x \in CandidateIds : candidates[x].position = p /\ x \notin voted}}

\* the candidates list built after total_votes has been read
ResultEntries(p, total) ==
    LET voted == CandidateVotes(p, total)
    IN SetToBag(voted)
          (+) SetToBag(ZeroVoteCandidates(p, {r.candidate_id : r \in voted}))

\* both queries answered from one state of the votes table
get_results_for_position(p) ==
    [position |-> p, total_votes |-> PositionVotes(p),
     candidates |-> ResultEntries(p, PositionVotes(p))]

\* election.positions.all(), in the order of Position.Meta.ordering
PositionOrder == <<"P1", "P2">>

ElectionPositions(e) ==
    SelectSeq(PositionOrder, LAMBDA p : positions[p].election = e)

get_results_for_election(e) ==
    [i \in 1..Len(ElectionPositions(e)) |->
        get_results_for_position(ElectionPositions(e)[i])]

\* what VoteViewSet.position_results answers when nothing else runs meanwhile
PositionResultsOutcome(u, p) ==
    IF ~can_view_results(u, elections[positions[p].election])
    THEN [result |-> "forbidden", positions |-> <<>>]
    ELSE [result |-> "ok", positions |-> <<get_results_for_position(p)>>]

\* what VoteViewSet.results answers when nothing else runs meanwhile
ResultsOutcome(u, e) ==
    IF ~can_view_results(u, elections[e])
    THEN [result |-> "forbidden", positions |-> <<>>]
    ELSE [result |-> "ok", positions |-> get_results_for_election(e)]

ReadPositionResults(u, p) ==
    /\ LET out == PositionResultsOutcome(u, p)
       IN resp' = [op |-> "position_results", result |-> out.result, n |-> 0,
                   positions |-> out.positions]
    /\ UNCHANGED <<now, elections, positions, candidates, members, memberSeq,
                   votes, reqs>>

ReadResults(u, e) ==
    /\ LET out == ResultsOutcome(u, e)
       IN resp' = [op |-> "results", result |-> out.result, n |-> 0,
                   positions |-> out.positions]
    /\ UNCHANGED <<now, elections, positions, candidates, members, memberSeq,
                   votes, reqs>>

\* ------------------------------------------------------------ vote-count fields
\* Election.get_total_votes
Election_get_total_votes(e) ==
    LET rows == {v \in VoteRows : v.election = e}
    IN BagCardinality([v \in rows |-> votes[v]])

\* Candidate.get_vote_count
Candidate_get_vote_count(c) ==
    LET rows == {v \in VoteRows : v.candidate = c}
    IN BagCardinality([v \in rows |-> votes[v]])

\* Position.get_total_votes: its import of .voting.models names a module
\* that does not exist, so every call raises
Position_get_total_votes(p) == "import_error"

\* a field left out (None) or a request that failed shows no number
Withheld(result) == [result |-> result, shown |-> FALSE, n |-> 0]

Shown(n) == [result |-> "ok", shown |-> TRUE, n |-> n]

CandidateElection(c) == positions[candidates[c].position].election

\* GraphQL election(id) { totalVotes }: resolve_election has no access check
ElectionType_resolve_total_votes(u, e) == Shown(Election_get_total_votes(e))

\* GraphQL position(id) { totalVotes }
PositionType_resolve_total_votes(u, p) ==
    IF elections[positions[p].election].status = "completed"
    THEN Withheld("error")
    ELSE Withheld("ok")

\* GraphQL candidate(id) { voteCount }
CandidateType_resolve_vote_count(u, c) ==
    IF elections[CandidateElection(c)].status = "completed"
    THEN Shown(Candidate_get_vote_count(c))
    ELSE Withheld("ok")

\* GraphQL electionResults(electionId)
resolve_election_results(u, e) ==
    IF ~can_view_results(u, elections[e])
    THEN Withheld("forbidden")
    ELSE Shown(Election_get_total_votes(e))

\* REST GET /elections/: ElectionSerializer.get_total_votes for a listed
\* election
ElectionSerializer_get_total_votes(u, e) ==
    IF ~ElectionVisible(u) THEN Withheld("not_found")
    ELSE Shown(Election_get_total_votes(e))

\* REST GET /candidates/{id}/: get_vote_count, then get_vote_percentage,
\* which goes through Position.get_total_votes
CandidateSerializer_get_vote_count(u, c) ==
    IF ~ElectionVisible(u) THEN Withheld("not_found")
    ELSE IF elections[CandidateElection(c)].status = "completed"
    THEN Withheld("error")
    ELSE Withheld("ok")

\* REST GET /positions/{id}/: PositionSerializer.get_total_votes
PositionSerializer_get_total_votes(u, p) ==
    IF ~ElectionVisible(u) THEN Withheld("not_found")
    ELSE IF elections[positions[p].election].status = "completed"
    THEN Withheld("error")
    ELSE Withheld("ok")

FieldOps == {"gql_election", "gql_position", "gql_candidate", "gql_results",
             "rest_election", "rest_candidate", "rest_position"}

\* the election a read is about, and what the read answers
FieldOutcome(op, u, x) ==
    CASE op = "gql_election" -> ElectionType_resolve_total_votes(u, x)
      [] op = "gql_position" -> PositionType_resolve_total_votes(u, x)
      [] op = "gql_candidate" -> CandidateType_resolve_vote_count(u, x)
      [] op = "gql_results" -> resolve_election_results(u, x)
      [] op = "rest_election" -> ElectionSerializer_get_total_votes(u, x)
      [] op = "rest_candidate" -> CandidateSerializer_get_vote_count(u, x)
      [] op = "rest_position" -> PositionSerializer_get_total_votes(u, x)

FieldTargets(op) ==
    CASE op \in {"gql_election", "gql_results", "rest_election"} -> ElectionIds
      [] op \in {"gql_position", "rest_position"} -> PositionIds
      [] op \in {"gql_candidate", "rest_candidate"} -> CandidateIds

FieldElection(op, x) ==
    CASE op \in {"gql_election", "gql_results", "rest_election"} -> x
      [] op \in {"gql_position", "rest_position"} -> positions[x].election
      [] op \in {"gql_candidate", "rest_candidate"} -> CandidateElection(x)

ReadField(op, u, x) ==
    /\ LET out == FieldOutcome(op, u, x)
       IN resp' = [op |-> op, result |-> out.result, n |-> out.n,
                   shown |-> out.shown]
    /\ UNCHANGED <<now, elections, positions, candidates, members, memberSeq,
                   votes, reqs>>

\* Organization.get_member_count: the approved memberships
get_member_count ==
    Cardinality({id \in MemberRows : members[id].membership_status = "approved"})

\* Vote.objects.filter(election=e).values('voter').distinct().count(): the
\* distinct values of the voter column, the owner's empty column being one
total_voters(e) == Cardinality({v.voter : v \in {x \in VoteRows : x.election = e}})

total_eligible == get_member_count + 1

\* Election.get_voter_turnout, as the pair it divides
get_voter_turnout(e) ==
    [total_voters |-> total_voters(e), total_eligible |-> total_eligible]

\* the can_vote field of an election, over REST and over GraphQL: neither
\* resolver looks at the requesting user
ElectionSerializer_get_can_vote(u, e) == can_vote(elections[e], now)

ElectionType_resolve_can_vote(u, e) == can_vote(elections[e], now)

CanVoteOps == {"rest_can_vote", "gql_can_vote"}

CanVoteOutcome(op, u, e) ==
    IF op = "rest_can_vote"
    THEN IF ElectionVisible(u)
         THEN [result |-> "ok", can_vote |-> ElectionSerializer_get_can_vote(u, e)]
         ELSE [result |-> "not_found", can_vote |-> FALSE]
    ELSE [result |-> "ok", can_vote |-> ElectionType_resolve_can_vote(u, e)]

ReadCanVote(op, u, e) ==
    /\ LET out == CanVoteOutcome(op, u, e)
       IN resp' = [op |-> op, result |-> out.result, n |-> 0,
                   user |-> u, election |-> e, can_vote |-> out.can_vote]
    /\ UNCHANGED <<now, elections, positions, candidates, members, memberSeq,
                   votes, reqs>>

\* VoteViewSet.results / position_results taken query by query: the
\* permission check, then for each position the count query and, in a later
\* step, the grouped query with the zero-vote candidates
ResultsBegin(r, op, u, e, todo) ==
    /\ r \notin DOMAIN reqs
    /\ IF ~can_view_results(u, elections[e])
       THEN /\ Respond(op, "forbidden")
            /\ reqs' = reqs
       ELSE /\ Respond(op, "reading")
            /\ reqs' = reqs @@ (r :> [kind |-> "results", op |-> op,
                                      todo |-> todo, total |-> -1,
                                      done |-> <<>>])
    /\ UNCHANGED <<now, elections, positions, candidates, members, memberSeq,
                   votes>>

position_results(r, u, p) ==
    ResultsBegin(r, "position_results", u, positions[p].election, <<p>>)

results(r, u, e) ==
    ResultsBegin(r, "results", u, e, ElectionPositions(e))

ResultsCount(r) ==
    /\ r \in DOMAIN reqs
    /\ reqs[r].kind = "results"
    /\ IF reqs[r].todo = <<>>
       THEN /\ resp' = [op |-> reqs[r].op, result |-> "ok", n |-> 0,
                        positions |-> reqs[r].done]
            /\ reqs' = Remove(r)
       ELSE /\ reqs[r].total = -1
            /\ resp' = resp
            /\ reqs' = [reqs EXCEPT ![r].total = PositionVotes(reqs[r].todo[1])]
    /\ UNCHANGED <<now, elections, positions, candidates, members, memberSeq,
                   votes>>

ResultsGroup(r) ==
    /\ r \in DOMAIN reqs
    /\ reqs[r].kind = "results"
    /\ reqs[r].todo # <<>>
    /\ reqs[r].total # -1
    /\ LET q == reqs[r]
           one == [position |-> q.todo[1], total_votes |-> q.total,
                   candidates |-> ResultEntries(q.todo[1], q.total)]
       IN reqs' = [reqs EXCEPT ![r].todo = Tail(q.todo),
                               ![r].total = -1,
                               ![r].done = Append(q.done, one)]
    /\ resp' = resp
    /\ UNCHANGED <<now, elections, positions, candidates, members, memberSeq,
                   votes>>

InitConc ==
    /\ now = 0
    /\ elections = [e \in ElectionIds |->
          IF e = "E1"
          THEN Election_save([start_at |-> 1, end_at |-> MaxTime,
                              status |-> "scheduled",
                              result_visibility |-> "public"], 0)
          ELSE Election_end(Election_save([start_at |-> 0, end_at |-> 1,
                                           status |-> "scheduled",
                              result_visibility |-> "public"], 0))]
    /\ positions = [p \in PositionIds |-> [election |-> "E1"]]
    /\ candidates = [c \in CandidateIds |->
                      [position |-> IF c \in {"c1", "c2"} THEN "P1" ELSE "P2",
                       user |-> Null]]
    /\ members = (1 :> [user |-> "alice", role |-> "voter",
                        membership_status |-> "approved"])
    /\ memberSeq = 1
    /\ votes = EmptyBag
    /\ resp = [op |-> "none", result |-> "none", n |-> 0]
    /\ reqs = <<>>

NextConc ==
    \/ Tick
    \/ \E r \in ReqIds, u \in {Owner, "alice"}, it \in Items :
          CastBegin(r, u, "E1", it[1], it[2])
    \/ \E r \in ReqIds : CastFinish(r)
    \/ \E id \in MemberIds, a \in {"approve", "reject"} : review(Owner, id, a)
    \/ end("root", "E1")

SpecConc == InitConc /\ [][NextConc]_vars

NextBulk ==
    \/ Tick
    \/ \E u \in {Owner, "alice"}, items \in Ballots :
          BulkBegin(1, u, "E1", items)
    \/ BulkStep(1)
    \/ \E id \in MemberIds, a \in {"approve", "reject"} : review(Owner, id, a)
    \/ end("root", "E1")

SpecBulk == InitConc /\ [][NextBulk]_vars

Next ==
    \/ Tick
    \/ \E u \in Voters, e \in ElectionIds, it \in Items :
          Cast(u, e, it[1], it[2])
    \/ \E u \in Voters, e \in ElectionIds, it \in Items :
          CastVoteMutate(u, e, it[1], it[2])
    \/ \E u \in Voters, items \in Ballots : BulkCast(u, "E1", items)
    \/ \E u \in Applicants : join_request(u)
    \/ \E id \in MemberIds, a \in {"approve", "reject"} : review(Owner, id, a)
    \/ \E u \in Applicants, id \in MemberIds : leave(u, id)
    \/ \E e \in ElectionIds : start("root", e)
    \/ \E e \in ElectionIds : end("root", e)
    \/ \E e \in ElectionIds : partial_update("root", e)
    \/ update_election_statuses
    \/ \E target \in Voters : invite_member(Owner, target, "voter")

Spec == Init /\ [][Next]_vars

\* ------------------------------------------------------------ results being read
\* One results request at a time, taken query by query, with casts, a member
\* leaving and edits of positions and candidates in between.
InitResults ==
    /\ now = 0
    /\ \E vis \in {"public", "private"} :
          elections = [e \in ElectionIds |->
              IF e = "E1"
              THEN Election_save([start_at |-> 0, end_at |-> MaxTime,
                                  status |-> "scheduled",
                                  result_visibility |-> vis], 0)
              ELSE Election_end(Election_save([start_at |-> 0, end_at |-> 1,
                                               status |-> "scheduled",
                                               result_visibility |-> "public"], 0))]
    /\ positions = [p \in PositionIds |-> [election |-> "E1"]]
    /\ candidates = [c \in CandidateIds |->
                      [position |-> IF c \in {"c1", "c2"} THEN "P1" ELSE "P2",
                       user |-> Null]]
    /\ members = (1 :> [user |-> "alice", role |-> "voter",
                        membership_status |-> "approved"])
    /\ memberSeq = 1
    /\ votes = EmptyBag
    /\ resp = [op |-> "none", result |-> "none", n |-> 0]
    /\ reqs = <<>>

NextResults ==
    \/ Tick
    \/ \E u \in Voters, it \in BallotItems : Cast(u, "E1", it[1], it[2])
    \/ \E u \in Users, p \in PositionIds : position_results(1, u, p)
    \/ \E u \in Users : results(1, u, "E1")
    \/ ResultsCount(1)
    \/ ResultsGroup(1)
    \/ \E id \in MemberIds : leave("alice", id)
    \/ end("root", "E1")
    \/ \E e \in ElectionIds : PositionViewSet_partial_update("root", "P2", e)
    \/ \E p \in PositionIds : CandidateViewSet_partial_update("root", "c1", p)

SpecResults == InitResults /\ [][NextResults]_vars

\* ------------------------------------------------------------ tallies
\* Requests served one at a time: casts, results reads, membership review and
\* leave, manual end, and edits of positions and candidates.
NextTally ==
    \/ Tick
    \/ \E u \in Voters, it \in BallotItems : Cast(u, "E1", it[1], it[2])
    \/ \E u \in Users, p \in PositionIds : ReadPositionResults(u, p)
    \/ \E u \in Users, e \in ElectionIds : ReadResults(u, e)
    \/ \E id \in MemberIds, a \in {"approve", "reject"} : review(Owner, id, a)
    \/ \E id \in MemberIds : leave("alice", id)
    \/ end("root", "E1")
    \/ \E e \in ElectionIds : PositionViewSet_partial_update("root", "P2", e)
    \/ \E p \in PositionIds : CandidateViewSet_partial_update("root", "c1", p)

SpecTally == InitResults /\ [][NextTally]_vars

\* the same with the reads of the vote-count fields
NextFields ==
    \/ NextTally
    \/ \E op \in FieldOps, u \in Users :
          \E x \in FieldTargets(op) : ReadField(op, u, x)

SpecFields == InitResults /\ [][NextFields]_vars

\* ------------------------------------------------------------ can_vote reads
NextCanVote ==
    \/ NextTally
    \/ \E op \in CanVoteOps, u \in Users, e \in ElectionIds : ReadCanVote(op, u, e)

SpecCanVote == InitResults /\ [][NextCanVote]_vars

\* ------------------------------------------------------------ ballots
AllBallots == UNION {[1..n -> Items] : n \in 1..MaxBallot}

NextBallot ==
    \/ Tick
    \/ \E u \in Voters, it \in BallotItems : Cast(u, "E1", it[1], it[2])
    \/ \E u \in Users, items \in AllBallots : BulkCast(u, "E1", items)
    \/ \E id \in MemberIds, a \in {"approve", "reject"} : review(Owner, id, a)
    \/ \E id \in MemberIds : leave("alice", id)
    \/ end("root", "E1")

SpecBallot == InitResults /\ [][NextBallot]_vars

\* ------------------------------------------------------------ memberships alone
NextMembers ==
    \/ \E u \in Users, target \in Users, role \in {"admin", "voter"} :
          invite_member(u, target, role)
    \/ \E u \in Users : join_request(u)
    \/ \E u \in Users : member_create(u)
    \/ \E u \in Users, id \in MemberIds, a \in {"approve", "reject"} :
          review(u, id, a)
    \/ \E u \in Users, id \in MemberIds, role \in {"admin", "voter"} :
          update_role(u, id, role)
    \/ \E u \in Users, id \in MemberIds, field \in MemberFields :
          \E value \in FieldValues(field) :
             member_partial_update(u, id, field, value)
    \/ \E u \in Users, id \in MemberIds : member_destroy(u, id)
    \/ \E u \in Users, id \in MemberIds : leave(u, id)

SpecMembers == Init /\ [][NextMembers]_vars

\* ------------------------------------------------------------ management alone
\* alice has no membership, is an approved voter, or is an approved admin
InitManage ==
    /\ now = 0
    /\ elections = [e \in ElectionIds |->
          IF e = "E1"
          THEN Election_save([start_at |-> 1, end_at |-> MaxTime,
                              status |-> "scheduled",
                              result_visibility |-> "public"], 0)
          ELSE Election_end(Election_save([start_at |-> 0, end_at |-> 1,
                                           status |-> "scheduled",
                                           result_visibility |-> "public"], 0))]
    /\ positions = [p \in PositionIds |-> [election |-> "E1"]]
    /\ candidates = [c \in CandidateIds |->
                      [position |-> IF c \in {"c1", "c2"} THEN "P1" ELSE "P2",
                       user |-> Null]]
    /\ \E rows \in {<<>>,
                    <<[user |-> "alice", role |-> "voter",
                       membership_status |-> "approved"]>>,
                    <<[user |-> "alice", role |-> "admin",
                       membership_status |-> "approved"]>>} :
          /\ members = rows
          /\ memberSeq = Len(rows)
    /\ votes = EmptyBag
    /\ resp = [op |-> "none", result |-> "none", n |-> 0]
    /\ reqs = <<>>

NextManage ==
    \/ \E u \in Users, e \in NewElectionIds, t \in Times :
          ElectionViewSet_create(u, e, t)
    \/ \E u \in Users : partial_update(u, "E1")
    \/ \E u \in Users, e \in NewElectionIds : ElectionViewSet_destroy(u, e)
    \/ \E u \in Users : start(u, "E1")
    \/ \E u \in Users : end(u, "E1")
    \/ \E u \in Users, p \in NewPositionIds, e \in DOMAIN elections :
          PositionViewSet_create(u, p, e)
    \/ \E u \in Users, p \in {"P2"} \cap DOMAIN positions, e \in DOMAIN elections :
          PositionViewSet_partial_update(u, p, e)
    \/ \E u \in Users, p \in {"P2"} \cup NewPositionIds :
          PositionViewSet_destroy(u, p)
    \/ \E u \in Users, c \in NewCandidateIds, p \in DOMAIN positions :
          CandidateViewSet_create(u, c, p, Null)
    \/ \E u \in Users, c \in {"c1"} \cap DOMAIN candidates, p \in DOMAIN positions :
          CandidateViewSet_partial_update(u, c, p)
    \/ \E u \in Users, c \in {"c1"} \cup NewCandidateIds :
          CandidateViewSet_destroy(u, c)

SpecManage == InitManage /\ [][NextManage]_vars

\* ------------------------------------------------------------ candidates with users
NextCandidates ==
    \/ invite_member(Owner, "alice", "voter")
    \/ \E id \in MemberIds, a \in {"approve", "reject"} : review(Owner, id, a)
    \/ \E id \in MemberIds : leave("alice", id)
    \/ \E id \in MemberIds : member_destroy(Owner, id)
    \/ \E u \in Users, c \in NewCandidateIds, cu \in Users \cup {Null} :
          CandidateViewSet_create(u, c, "P1", cu)
    \/ \E u \in Users, c \in NewCandidateIds \cap DOMAIN candidates,
          p \in PositionIds :
             CandidateViewSet_partial_update(u, c, p)
    \/ \E u \in Users, c \in NewCandidateIds : CandidateViewSet_destroy(u, c)

SpecCandidates == Init /\ [][NextCandidates]_vars

\* ------------------------------------------------------------ election dates
NextDates ==
    \/ Tick
    \/ \E u \in Users, e \in NewElectionIds, t \in Times :
          ElectionViewSet_create(u, e, t)
    \/ \E u \in Users, e \in NewElectionIds, s \in Times, t \in Times :
          CreateElection_mutate(u, e, s, t)
    \/ \E u \in Users, e \in {"E1"} \cup NewElectionIds, attrs \in TimeAttrs :
          ElectionViewSet_update(u, e, attrs)
    \/ \E u \in Users, e \in NewElectionIds : ElectionViewSet_destroy(u, e)

SpecDates == Init /\ [][NextDates]_vars

\* ------------------------------------------------------------ lifecycle alone
Windows == {w \in Times \X Times : w[1] < w[2]}

InitLifecycle ==
    /\ now = 0
    /\ \E w1 \in Windows, w2 \in Windows :
          elections = [e \in ElectionIds |->
              IF e = "E1"
              THEN Election_save([start_at |-> w1[1], end_at |-> w1[2],
                                  status |-> "scheduled",
                              result_visibility |-> "public"], 0)
              ELSE Election_save([start_at |-> w2[1], end_at |-> w2[2],
                                  status |-> "scheduled",
                              result_visibility |-> "public"], 0)]
    /\ positions = [p \in PositionIds |-> [election |-> "E1"]]
    /\ candidates = [c \in CandidateIds |->
                      [position |-> IF c \in {"c1", "c2"} THEN "P1" ELSE "P2",
                       user |-> Null]]
    /\ members = <<>>
    /\ memberSeq = 0
    /\ votes = EmptyBag
    /\ resp = [op |-> "none", result |-> "none", n |-> 0]
    /\ reqs = <<>>

NextLifecycle ==
    \/ Tick
    \/ \E u \in Users, e \in ElectionIds : start(u, e)
    \/ \E u \in Users, e \in ElectionIds : end(u, e)
    \/ \E u \in Users, e \in ElectionIds : partial_update(u, e)
    \/ update_election_statuses

SpecLifecycle == InitLifecycle /\ [][NextLifecycle]_vars

\* ============================================================ properties
CastOps == {"cast", "castVote"}

\* the user a stored vote row belongs to
Caster(v) == IF v.voter # NoMember THEN members[v.voter].user ELSE v.voter_user

\* number of vote rows of user u for position p of election e
CountFor(e, p, u) ==
    LET rows == {v \in VoteRows : v.election = e /\ v.position = p /\ Caster(v) = u}
    IN BagCardinality([v \in rows |-> votes[v]])

\* rows a step inserts
NewRows ==
    {v \in DOMAIN votes' :
        IF v \in DOMAIN votes THEN votes'[v] > votes[v] ELSE TRUE}

DerivedStatus(e) ==
    LET el == elections[e]
    IN IF el.status = "completed" THEN "completed"
       ELSE IF now < el.start_at THEN "scheduled"
       ELSE IF now < el.end_at THEN "ongoing"
       ELSE "completed"

Eligible(u) ==
    \/ u = Owner
    \/ \E id \in DOMAIN members : /\ members[id].user = u
                                  /\ members[id].membership_status = "approved"

Rank(st) == CASE st = "scheduled" -> 0 [] st = "ongoing" -> 1 [] OTHER -> 2

\* C1: with requests served one at a time, every (election, position, user)
\* has at most one vote row, whether recorded through the membership or
\* directly, and a single cast (REST or GraphQL) by a user who already voted
\* for the position is answered as a duplicate and inserts nothing.
C1_OneVotePerPosition ==
    /\ \A e \in ElectionIds, p \in PositionIds, u \in Users :
          CountFor(e, p, u) <= 1
    /\ \A u \in Users, e \in ElectionIds, p \in PositionIds :
          (CountFor(e, p, u) > 0 /\ positions[p].election = e) =>
             \A c \in CandidateIds :
                candidates[c].position = p =>
                   /\ CastOutcome(u, e, p, c) =
                         [result |-> "duplicate", rows |-> <<>>]
                   /\ CastVoteOutcome(u, e, p, c) =
                         [result |-> "duplicate", rows |-> <<>>]

C1_Witness ==
    /\ resp.op \in CastOps
    /\ resp.result = "duplicate"
    /\ \E v \in VoteRows, w \in VoteRows :
          v.voter # NoMember /\ w.voter_user = Owner

\* C2: when two casts of one user for one position are served at the same
\* time, still at most one vote row for the triple is ever stored.
C2_RaceClosed ==
    \A u \in Users, p \in PositionIds, e \in ElectionIds :
        CountFor(e, p, u) < 2

\* C3: a bulk cast with an item whose position the user already voted for
\* inserts no vote row at all, for no item, and is not answered as created.
C3_BulkRejectedAsWhole ==
    \A u \in Users, e \in ElectionIds, items \in Ballots :
        (\E i \in 1..Len(items) : CountFor(e, items[i][1], u) > 0) =>
           LET out == BulkCastOutcome(u, e, items)
           IN out.rows = <<>> /\ out.result # "created"

C3_Witness ==
    /\ resp = [op |-> "bulk_cast", result |-> "duplicate", n |-> 1]
    /\ votes # EmptyBag

\* C4: a bulk cast that passed validation stores all of its N votes or none:
\* while it is in flight it stores nothing, and the step that ends it adds
\* either N rows or no row.
C4_BulkAllOrNothing ==
    [][\A r \in DOMAIN reqs :
          reqs[r].kind = "bulk" =>
             LET added == BagCardinality(votes') - BagCardinality(votes)
             IN IF r \in DOMAIN reqs'
                THEN added = 0
                ELSE added = 0 \/ added = Len(reqs[r].items)]_vars

C4_Witness ==
    resp = [op |-> "bulk_cast", result |-> "error", n |-> 1]

\* C5: a vote row is only ever inserted for an election whose status derived
\* from the current time is ongoing; a cast on an election that is scheduled
\* or completed is rejected and inserts nothing.
C5_CastOnlyWhenOngoing ==
    /\ [][\A v \in NewRows : DerivedStatus(v.election) = "ongoing"]_vars
    /\ [](\A e \in ElectionIds :
             DerivedStatus(e) # "ongoing" =>
                /\ \A u \in Users, p \in PositionIds, c \in CandidateIds :
                      LET rest == CastOutcome(u, e, p, c)
                          gql == CastVoteOutcome(u, e, p, c)
                      IN /\ rest.rows = <<>> /\ rest.result # "created"
                         /\ gql.rows = <<>> /\ gql.result # "created"
                /\ \A u \in Users, items \in Ballots :
                      LET out == BulkCastOutcome(u, e, items)
                      IN out.rows = <<>> /\ out.result = "closed")

C5_Witness ==
    /\ resp.op \in CastOps \cup {"bulk_cast"}
    /\ resp.result = "closed"
    /\ elections["E1"].status = "ongoing"
    /\ now < elections["E1"].start_at

\* C6: every vote row is inserted for a caster who at that moment is the
\* owner or holds an approved membership; a cast by anyone else (no
\* membership, pending, rejected) is rejected and inserts nothing.
C6_OnlyEligibleCast ==
    /\ [][\A v \in NewRows :
            \/ v.voter_user = Owner
            \/ /\ v.voter \in DOMAIN members
               /\ members[v.voter].membership_status = "approved"]_vars
    /\ [](\A u \in Users :
             ~Eligible(u) =>
                /\ \A e \in ElectionIds, p \in PositionIds, c \in CandidateIds :
                      LET rest == CastOutcome(u, e, p, c)
                          gql == CastVoteOutcome(u, e, p, c)
                      IN /\ rest.rows = <<>> /\ rest.result # "created"
                         /\ gql.rows = <<>> /\ gql.result # "created"
                /\ \A e \in ElectionIds, items \in Ballots :
                      LET out == BulkCastOutcome(u, e, items)
                      IN out.rows = <<>> /\ out.result # "created")

C6_Witness ==
    /\ resp.op \in CastOps \cup {"bulk_cast"}
    /\ resp.result \in {"not_eligible", "error"}
    /\ DerivedStatus("E1") = "ongoing"
    /\ \E id \in DOMAIN members :
          members[id].membership_status \in {"pending", "rejected"}

\* C7: every vote row has exactly one of voter and voter_user set; a row a
\* cast inserts carries voter_user (the caster) exactly when the caster is
\* the owner, and otherwise voter, the caster's approved membership.
OwnColumns(u, v) ==
    IF u = Owner
    THEN v.voter_user = u /\ v.voter = NoMember
    ELSE /\ v.voter_user = Null
         /\ v.voter \in DOMAIN members
         /\ members[v.voter].user = u
         /\ members[v.voter].membership_status = "approved"

C7_ExactlyOneVoterColumn ==
    /\ \A v \in VoteRows : (v.voter = NoMember) # (v.voter_user = Null)
    /\ \A u \in Users, e \in ElectionIds :
          /\ \A p \in PositionIds, c \in CandidateIds :
                LET rest == CastOutcome(u, e, p, c).rows
                    gql == CastVoteOutcome(u, e, p, c).rows
                IN /\ \A i \in DOMAIN rest : OwnColumns(u, rest[i])
                   /\ \A i \in DOMAIN gql : OwnColumns(u, gql[i])
          /\ \A items \in Ballots :
                LET rows == BulkCastOutcome(u, e, items).rows
                IN \A i \in DOMAIN rows : OwnColumns(u, rows[i])

C7_Witness ==
    /\ resp.result = "created"
    /\ \E v \in VoteRows, w \in VoteRows :
          /\ v.voter_user = Owner /\ v.voter = NoMember
          /\ w.voter # NoMember /\ w.voter_user = Null

\* C8: while start_at and end_at stay as they are, the stored status of an
\* election never moves backwards (ongoing to scheduled, completed to
\* ongoing or scheduled).
C8_StatusNeverRegresses ==
    [][\A e \in ElectionIds :
          (/\ elections'[e].start_at = elections[e].start_at
           /\ elections'[e].end_at = elections[e].end_at)
          => Rank(elections'[e].status) >= Rank(elections[e].status)]_vars

\* C9: once the stored status is completed it stays completed, and deriving
\* the status at any time, before start_at or inside the window included,
\* gives completed.
C9_CompletedIsSticky ==
    [][\A e \in ElectionIds :
          elections[e].status = "completed" =>
             /\ elections'[e].status = "completed"
             /\ \A t \in Times :
                   /\ update_status(elections'[e], t).status = "completed"
                   /\ ~can_vote(elections'[e], t)]_vars

C9_Witness ==
    /\ resp = [op |-> "partial_update", result |-> "ok", n |-> 0]
    /\ elections["E1"].status = "completed"
    /\ now < elections["E1"].start_at

C11_EndFromScheduledOrOngoing ==
    [][resp'.op = "end" =>
        \A u \in Users, e \in ElectionIds :
           (end(u, e) /\ can_manage(u)) =>
              /\ elections[e].status \in {"scheduled", "ongoing"} =>
                    /\ resp'.result = "ok"
                    /\ elections'[e].status = "completed"
              /\ elections[e].status = "completed" =>
                    /\ resp'.result # "ok"
                    /\ elections' = elections]_vars

\* sum of vote_count over the entries of a candidates list
RECURSIVE SumCounts(_, _)
SumCounts(entries, left) ==
    IF left = {} THEN 0
    ELSE LET x == CHOOSE y \in left : TRUE
         IN x.vote_count * entries[x] + SumCounts(entries, left \ {x})

ResultsOps == {"results", "position_results"}

\* C12: in every result a results request returns, each position's
\* vote_count summed over its candidate entries equals its total_votes, with
\* casts, leaves and edits of positions and candidates happening before and
\* while the result is computed.
C12_CountsSumToTotal ==
    (resp.op \in ResultsOps /\ resp.result = "ok") =>
        \A i \in 1..Len(resp.positions) :
            SumCounts(resp.positions[i].candidates,
                      DOMAIN resp.positions[i].candidates)
               = resp.positions[i].total_votes

\* the entries of a candidates list that name candidate c
EntriesOf(entries, c) == {x \in DOMAIN entries : x.candidate_id = c}

\* one position's result lists every candidate of the position once, with
\* zeros for a candidate without a vote row for the position and for every
\* candidate when total_votes is 0
CompleteResult(res) ==
    \A c \in CandidateIds :
        candidates[c].position = res.position =>
            /\ Cardinality(EntriesOf(res.candidates, c)) = 1
            /\ \A x \in EntriesOf(res.candidates, c) :
                  /\ res.candidates[x] = 1
                  /\ (\A v \in VoteRows :
                         ~(v.position = res.position /\ v.candidate = c))
                        => (x.vote_count = 0 /\ x.percentage = 0)
                  /\ res.total_votes = 0
                        => (x.vote_count = 0 /\ x.percentage = 0)

\* C13: get_results_for_position and get_results_for_election list every
\* candidate of the position exactly once; a candidate with no vote for the
\* position has vote_count 0 and percentage 0, and when total_votes is 0 every
\* candidate of the position has vote_count 0 and percentage 0.
C13_EveryCandidateListed ==
    /\ \A p \in PositionIds : CompleteResult(get_results_for_position(p))
    /\ \A e \in ElectionIds :
          \A i \in DOMAIN get_results_for_election(e) :
             CompleteResult(get_results_for_election(e)[i])

C13_Witness ==
    /\ resp.op \in ResultsOps
    /\ resp.result = "ok"
    /\ \E i \in 1..Len(resp.positions) :
          /\ resp.positions[i].total_votes > 0
          /\ \E x \in DOMAIN resp.positions[i].candidates :
                x.vote_count = 0 /\ candidates[x.candidate_id].position = resp.positions[i].position
          /\ \E x \in DOMAIN resp.positions[i].candidates :
                x.vote_count > 0 /\ candidates[x.candidate_id].position # resp.positions[i].position

\* C14: can_view_results is true for every user of a public election; for a
\* private election it is true exactly when the stored status is completed
\* and the user is the owner or an approved member, so it is false for
\* everyone while the election is stored as scheduled or ongoing.
C14_CanViewResults ==
    \A u \in Users, e \in ElectionIds, vis \in {"public", "private"},
       st \in {"scheduled", "ongoing", "completed"} :
        LET el == [elections[e] EXCEPT !.result_visibility = vis,
                                       !.status = st]
        IN /\ can_view_results(u, el) =
                 (\/ vis = "public"
                  \/ (st = "completed" /\ Eligible(u)))
           /\ (vis = "private" /\ st # "completed") => ~can_view_results(u, el)

C14_Witness ==
    /\ resp.op \in ResultsOps
    /\ resp.result = "forbidden"
    /\ elections["E1"].result_visibility = "private"
    /\ elections["E1"].status = "completed"
    /\ \E id \in DOMAIN members : members[id].membership_status = "rejected"

\* C15: no read shows a vote tally of an election to a user for whom
\* can_view_results is false: not the REST results and position_results
\* endpoints, not the GraphQL election results query, and not the vote-count
\* fields of candidates, positions and elections.
C15_TalliesWithheld ==
    /\ \A u \in Users, e \in ElectionIds :
          ResultsOutcome(u, e).result = "ok" => can_view_results(u, elections[e])
    /\ \A u \in Users, p \in PositionIds :
          PositionResultsOutcome(u, p).result = "ok"
             => can_view_results(u, elections[positions[p].election])
    /\ \A op \in FieldOps, u \in Users :
          \A x \in FieldTargets(op) :
             FieldOutcome(op, u, x).shown
                => can_view_results(u, elections[FieldElection(op, x)])

\* C16: every membership is created with status pending, and once a
\* membership has been approved or rejected no later step changes its
\* status again.
C16_StatusChangesOnce ==
    [][/\ \A id \in (DOMAIN members') \ MemberRows :
             members'[id].membership_status = "pending"
       /\ \A id \in MemberRows \cap DOMAIN members' :
             members[id].membership_status # "pending"
                => members'[id].membership_status
                      = members[id].membership_status]_vars

\* C17: no membership row has the owner of the organization for its user;
\* an invite, join request or member update naming the owner leaves no
\* such row.
C17_OwnerNeverMember ==
    \A id \in MemberRows : members[id].user # Owner

\* an invite was refused while no membership existed, so it named the owner
C17_Witness ==
    /\ resp.op = "invite_member"
    /\ resp.result = "invalid"
    /\ members = <<>>

\* C18: a membership row disappears only through a leave request of the
\* user it belongs to; a leave request by another user is answered
\* forbidden and removes nothing.
C18_RemovedOnlyByOwnLeave ==
    [][/\ MemberRows \ DOMAIN members' # {}
          => /\ resp'.op = "leave"
             /\ resp'.result = "deleted"
       /\ \A u \in Users, id \in MemberRows :
             (members[id].user # u /\ leave(u, id))
                => /\ resp'.result = "forbidden"
                   /\ members' = members]_vars


\* C19: a create, update, delete, start or end request on an election, a
\* position or a candidate by a user who cannot manage the organization
\* leaves the stored elections, positions and candidates unchanged and is
\* not answered with success.
C19_OnlyManagersChangeData ==
    [][\A u \in Users :
          (~can_manage(u) /\ ManageOps(u))
             => /\ UNCHANGED <<elections, positions, candidates>>
                /\ resp'.result \notin {"ok", "created", "deleted"}]_vars


\* C20: every stored vote names a position of its election and a candidate
\* of its position, also after positions and candidates have been updated.
C20_VotesStayConsistent ==
    \A v \in VoteRows :
        /\ positions[v.position].election = v.election
        /\ candidates[v.candidate].position = v.position


\* C21: votes are append-only: no step modifies or deletes a stored vote,
\* so every vote row of one state is still stored, as often, in the next.
C21_VotesAppendOnly ==
    [][\A v \in VoteRows : CopiesIn(v, votes') >= CopiesIn(v, votes)]_vars


\* C22: every candidate with a user attached has for its user the owner or
\* an approved member of the organization, at creation and after any later
\* rejection, leave or removal of a membership.
C22_CandidateUserIsMember ==
    \A c \in DOMAIN candidates :
        candidates[c].user # Null
           => (candidates[c].user = Owner \/ is_member(candidates[c].user))


\* C23: every stored election has start_at < end_at: a create or an update,
\* full or of one time alone, that would give start_at >= end_at stores
\* nothing.
C23_StartBeforeEnd ==
    \A e \in DOMAIN elections : elections[e].start_at < elections[e].end_at

\* an update naming one time alone passed the serializer and was refused by
\* the model's validation
C23_Witness ==
    /\ resp.op = "election_update"
    /\ resp.result = "validation_error"


\* C24: the can_vote value reported to a user is true exactly when the
\* re-derived status of the election is ongoing and the user is the owner
\* or an approved member; when it is true no valid cast by that user is
\* answered closed or not eligible.
C24_CanVoteMeansEligible ==
    (resp.op \in CanVoteOps /\ resp.result = "ok")
       => /\ resp.can_vote
                <=> /\ update_status(elections[resp.election], now).status
                          = "ongoing"
                    /\ (resp.user = Owner \/ is_member(resp.user))
          /\ resp.can_vote
                => \A it \in Items :
                      CastValidate(resp.user, resp.election, it[1], it[2], now)
                         \notin {"closed", "not_eligible"}


\* the totals of the position results, added up
SumTotals ==
    get_results_for_position("P1").total_votes
       + get_results_for_position("P2").total_votes

\* a ballot of user u whose items are all valid, on pairwise distinct
\* positions that u has not voted for, in an election open to u
ValidBallot(u, e, items) ==
    /\ update_status(elections[e], now).status = "ongoing"
    /\ (u = Owner \/ is_member(u))
    /\ \A i \in 1..Len(items) :
          /\ positions[items[i][1]].election = e
          /\ candidates[items[i][2]].position = items[i][1]
          /\ CountFor(e, items[i][1], u) = 0
    /\ \A i, j \in 1..Len(items) : i # j => items[i][1] # items[j][1]

\* C25: a bulk cast of N valid items on distinct positions not yet voted by
\* the user creates exactly N vote rows, the i-th for the i-th item with the
\* requested candidate and the caster's identity; the step that stores them
\* keeps every earlier row and raises the total of each position by its new
\* rows.
C25_BulkRoundTrip ==
    /\ [](\A u \in Users, items \in AllBallots :
             ValidBallot(u, "E1", items) =>
                LET out == BulkCastOutcome(u, "E1", items)
                IN /\ out.result = "created"
                   /\ Len(out.rows) = Len(items)
                   /\ \A i \in 1..Len(items) :
                         /\ out.rows[i].election = "E1"
                         /\ out.rows[i].position = items[i][1]
                         /\ out.rows[i].candidate = items[i][2]
                         /\ Caster(out.rows[i]) = u)
    /\ [][(resp'.op = "bulk_cast" /\ resp'.result = "created") =>
             /\ \A v \in VoteRows : CopiesIn(v, votes') >= CopiesIn(v, votes)
             /\ BagCardinality(votes') = BagCardinality(votes) + resp'.n
             /\ \A p \in PositionIds :
                   get_results_for_position(p).total_votes' \in
                      {get_results_for_position(p).total_votes,
                       get_results_for_position(p).total_votes + 1}
             /\ SumTotals' = SumTotals + resp'.n]_vars

\* a ballot of two items was stored
C25_Witness ==
    /\ resp = [op |-> "bulk_cast", result |-> "created", n |-> 2]
    /\ BagCardinality(votes) >= 2

\* C26: a bulk cast naming one position in two items is rejected, whatever
\* the two candidates are, and creates no vote row for any item.
C26_DuplicatePositionRejected ==
    \A u \in Users, items \in AllBallots :
        (\E i, j \in 1..Len(items) : i # j /\ items[i][1] = items[j][1]) =>
           LET out == BulkCastOutcome(u, "E1", items)
           IN out.rows = <<>> /\ out.result # "created"

\* a ballot was refused at its second item for repeating a position
C26_Witness ==
    resp = [op |-> "bulk_cast", result |-> "duplicate_position", n |-> 1]


\* C27: after a run of the periodic sweep a scheduled election whose window
\* has opened is stored ongoing, and every election whose end time has
\* passed is stored completed, also when it was still stored as scheduled.
C27_SweepPersistsDerivedStatus ==
    [][resp'.op = "sweep" =>
          \A e \in ElectionIds :
             /\ (/\ elections[e].status = "scheduled"
                 /\ elections[e].start_at <= now
                 /\ now < elections[e].end_at)
                   => elections'[e].status = "ongoing"
             /\ now >= elections[e].end_at
                   => elections'[e].status = "completed"]_vars


\* C28: once the end time of a private election has passed, the owner and
\* every approved member are allowed to read its results, whether or not
\* the completed status has been stored yet.
C28_ResultsAfterEndTime ==
    \A u \in Users, e \in ElectionIds :
        (/\ elections[e].result_visibility = "private"
         /\ now >= elections[e].end_at
         /\ (u = Owner \/ is_member(u)))
           => ResultsOutcome(u, e).result = "ok"


\* C29: after a manual start of a scheduled election whose start time is
\* still ahead, the election accepts votes: can_vote() is true, a cast by
\* the owner or an approved member for a valid position not yet voted is
\* created, and a later save keeps the status ongoing.
C29_StartedElectionAcceptsVotes ==
    (/\ resp.op = "start"
     /\ resp.result = "ok"
     /\ elections["E1"].status = "ongoing"
     /\ now < elections["E1"].start_at)
       => /\ can_vote(elections["E1"], now)
          /\ \A u \in Voters :
                (u = Owner \/ is_member(u)) =>
                   \A it \in Items :
                      (/\ positions[it[1]].election = "E1"
                       /\ candidates[it[2]].position = it[1]
                       /\ CountFor("E1", it[1], u) = 0)
                         => CastOutcome(u, "E1", it[1], it[2]).result = "created"
          /\ Election_save(elections["E1"], now).status = "ongoing"


\* C30: the voter turnout of an election never exceeds 100%: the number of
\* distinct voters counted is at most the number of approved members plus
\* one for the owner, also after a member who voted has been rejected.
C30_TurnoutAtMostAll ==
    \A e \in ElectionIds :
        get_voter_turnout(e).total_voters <= get_voter_turnout(e).total_eligible

====
